---- MODULE Spec2Model ----
(***************************************************************************)
(* Model of self_driving/ml_training/train.py: the command line entry      *)
(* point main() and the orchestration function train(), run any number of  *)
(* times over one file system.                                             *)
(*                                                                         *)
(* Config, DataHolder, DFN and Trainer are imported by train.py and are    *)
(* not part of the source at hand; their behaviour is modelled from the    *)
(* specification (sections 4.1-4.4) and every such definition says so.     *)
(*                                                                         *)
(* File system abstraction.  A directory holds checkpoints; a checkpoint   *)
(* is abstracted to the tag "new" (written by the run in progress) or      *)
(* "old" (written by an earlier run, or present before the first run).     *)
(* Starting a run turns every "new" into "old" (Age).  The working         *)
(* directory is ./checkpoints, the parent-level directory is               *)
(* parentdir/checkpoints, which may itself hold a nested checkpoints       *)
(* directory.  The process is assumed to run with the script directory as  *)
(* working directory.                                                      *)
(***************************************************************************)
EXTENDS Integers, Sequences, FiniteSets, TLC

VARIABLES
    pc,       \* position of the current run inside main()/train()
    args,     \* the arguments of the current run
    work,     \* ./checkpoints
    parent,   \* parentdir/checkpoints
    trainer,  \* state of the run's Trainer instance
    step,     \* global step counter of Trainer.fit
    saved,    \* global steps at which this run's fit wrote a checkpoint
    log,      \* the calls this run has made, in order
    error,    \* the exception that ended the run, "none" otherwise
    nMoved    \* number of relocations that have completed

vars == <<pc, args, work, parent, trainer, step, saved, log, error, nMoved>>

----------------------------------------------------------------------------
(* Bounds of the model *)

MaxEpochs == 2
MaxNumSteps == 2
MaxSaveStep == 3

----------------------------------------------------------------------------
(* Input domains *)

None == <<"None">>

Modes == {"pure", "flip", "aug", "bin", "gray", "green"}

\* mode is type=str with no choices=: any string is accepted by the parser
CliModes == Modes \cup {"sepia"}

\* direct calls of train(): a mode and a channel count chosen independently
DirectModes == {"pure", "gray"}
Channels == {1, 3}

\* default [4]; a two-layer network ending in the three label classes
Architectures == {<<4>>, <<8, 3>>}

CliActivations == {None, <<"relu">>, <<"softmax">>}

CliOptimizers == {"GradientDescent", "SGD"}

NumClasses == 3

----------------------------------------------------------------------------
(* Directories *)

Absent == [exists |-> FALSE, files |-> {}, subExists |-> FALSE, subFiles |-> {}]

Dir(files) == [exists |-> TRUE, files |-> files, subExists |-> FALSE, subFiles |-> {}]

AgeFiles(fs) == IF fs = {} THEN {} ELSE {"old"}

\* bookkeeping at the start of a run: what any earlier run wrote is now old
Age(d) == [d EXCEPT !.files = AgeFiles(d.files), !.subFiles = AgeFiles(d.subFiles)]

----------------------------------------------------------------------------
(* main(): channel derivation and the two lookup tables *)

ResolveChannelsNoGreen(mode) ==
    IF mode = "bin" \/ mode = "gray" THEN 1 ELSE 3

\* if args.mode == "bin" or args.mode == "gray" or args.mode == "green"
ResolveChannels(mode) ==
    IF mode = "bin" \/ mode = "gray" \/ mode = "green" THEN 1 ELSE 3

optimizer_dict ==
    {"GradientDescent", "Adadelta", "Adagrad", "Adam", "Ftrl",
     "ProximalGradientDescent", "ProximalAdagrad", "RMSProp"}

activations_dict == {"relu", "sigmoid", "tanh"}

LookupAlwaysFound(acts, opt) == TRUE

\* activations_dict[act] for every given name, then optimizer_dict[name]:
\* a missing key raises KeyError
LookupOK(acts, opt) ==
    /\ acts # None => \A i \in 1..Len(acts) : acts[i] \in activations_dict
    /\ opt \in optimizer_dict

----------------------------------------------------------------------------
(* train(): the steps of its body, in order *)

ClearCheckpointsSkipped(d) == d

\* if os.path.exists("checkpoints"): shutil.rmtree("checkpoints")
ClearCheckpoints(d) == IF d.exists THEN Absent ELSE d

ClearedLabel(d) == IF d.exists THEN "rmtree" ELSE "no_rmtree"

AfterEval(a) == IF a.move THEN "move" ELSE "done"

AfterFitAlwaysEvaluates(a) == "read_valid"

\* if verbose: ... ; if move: ...
AfterFit(a) == IF a.verbose THEN "read_valid" ELSE AfterEval(a)

\* the statement that follows statement p when p returns normally
Successor(p, a) ==
    CASE p = "clear" -> "config"
      [] p = "config" -> "data"
      [] p = "data" -> "network"
      [] p = "network" -> "trainer"
      [] p = "trainer" -> "fit_call"
      [] p = "fit_call" -> "fit"
      [] p = "fit" -> AfterFit(a)
      [] p = "read_valid" -> "predict"
      [] p = "predict" -> "plot"
      [] p = "plot" -> AfterEval(a)
      [] p = "move" -> "done"
      [] OTHER -> "done"

OnExceptionSwallowed(p, a) == Successor(p, a)

\* train() has no try/except: an exception raised by statement p leaves
\* train() and main() at once
OnException(p, a) == "failed"

\* shutil.move("checkpoints", dst): dst an existing directory -> the source
\* is moved inside it, and that fails if dst/checkpoints already exists;
\* dst missing -> the source is renamed to dst
ShutilMove(src, dst) ==
    IF ~src.exists THEN [ok |-> FALSE, src |-> src, dst |-> dst]
    ELSE IF dst.exists
         THEN IF dst.subExists
              THEN [ok |-> FALSE, src |-> src, dst |-> dst]
              ELSE [ok |-> TRUE, src |-> Absent,
                    dst |-> [dst EXCEPT !.subExists = TRUE,
                                        !.subFiles = src.files]]
         ELSE [ok |-> TRUE, src |-> Absent, dst |-> Dir(src.files)]

----------------------------------------------------------------------------
(* The imported components, modelled from the specification *)

\* 4.1: construction fails if an integer field is non-positive or the
\* architecture is empty
ConfigValid(a) ==
    /\ a.channels > 0 /\ a.epochs > 0 /\ a.num_steps > 0 /\ a.save_step > 0
    /\ a.architecture # <<>>

\* 4.3: construction fails if activations are given and their number is not
\* len(architecture) - 1
NetworkValid(a) ==
    a.activations = None \/ Len(a.activations) = Len(a.architecture) - 1

\* channel count of the samples in the record files of a mode
RecordChannels(mode) == IF mode \in {"bin", "gray", "green"} THEN 1 ELSE 3

\* 4.2: a data error if a record source cannot be opened or yields samples
\* whose shape disagrees with the declared one
DataOK(a) == a.mode \in Modes /\ RecordChannels(a.mode) = a.channels

TotalSteps(a) == a.epochs * a.num_steps

SaveDuePerEpoch(s, a) == (((s - 1) % a.num_steps) + 1) % a.save_step = 0

\* "when step % save_step == 0, the model parameters are saved", s being
\* the number of steps completed so far in the run
SaveDue(s, a) == s % a.save_step = 0

----------------------------------------------------------------------------
(* State *)

NoArgs ==
    [entry |-> "none", mode |-> "bin", channels |-> 1, architecture |-> <<4>>,
     activations |-> None, optimizer |-> "GradientDescent", epochs |-> 1,
     num_steps |-> 1, save_step |-> 1, verbose |-> FALSE, move |-> FALSE]

\* before the first run the working directory may hold a checkpoints
\* directory left by some earlier training; the parent-level one is filled
\* by relocations only
Init ==
    /\ pc = "idle"
    /\ args = NoArgs
    /\ work \in {Absent, Dir({"old"})}
    /\ parent = Absent
    /\ trainer = "NONE"
    /\ step = 0
    /\ saved = {}
    /\ log = <<>>
    /\ error = "none"
    /\ nMoved = 0

\* a new process is started on the file system the earlier runs left
NewRun(a) ==
    /\ args' = a
    /\ work' = Age(work)
    /\ parent' = Age(parent)
    /\ trainer' = "NONE"
    /\ step' = 0
    /\ saved' = {}
    /\ UNCHANGED nMoved

\* main(): parse the arguments, derive channels, look up activations and
\* optimizer, call train()
MainCall ==
    /\ pc = "idle"
    /\ \E mode \in CliModes, arch \in Architectures, acts \in CliActivations,
       opt \in CliOptimizers, e \in 1..MaxEpochs, n \in 1..MaxNumSteps,
       s \in 0..MaxSaveStep, v \in BOOLEAN, mv \in BOOLEAN :
        /\ NewRun([entry |-> "main", mode |-> mode,
                   channels |-> ResolveChannels(mode), architecture |-> arch,
                   activations |-> acts, optimizer |-> opt, epochs |-> e,
                   num_steps |-> n, save_step |-> s, verbose |-> v,
                   move |-> mv])
        /\ IF LookupOK(acts, opt)
           THEN pc' = "clear" /\ error' = "none" /\ log' = <<"main", "train">>
           ELSE pc' = "failed" /\ error' = "KeyError" /\ log' = <<"main">>

\* train() called by an importing module with arguments of its own choice
TrainCall ==
    /\ pc = "idle"
    /\ \E mode \in DirectModes, ch \in Channels, arch \in Architectures,
       acts \in {None, <<"relu">>}, e \in 1..MaxEpochs, n \in 1..MaxNumSteps,
       s \in 0..MaxSaveStep, v \in BOOLEAN, mv \in BOOLEAN :
        /\ NewRun([entry |-> "train", mode |-> mode, channels |-> ch,
                   architecture |-> arch, activations |-> acts,
                   optimizer |-> "GradientDescent", epochs |-> e,
                   num_steps |-> n, save_step |-> s, verbose |-> v,
                   move |-> mv])
        /\ pc' = "clear" /\ error' = "none" /\ log' = <<"train">>

\* statement pc returns normally, having made call `what`
Return(what) ==
    /\ pc' = Successor(pc, args)
    /\ log' = Append(log, what)
    /\ UNCHANGED <<args, error>>

\* statement pc raises `kind`
Raise(kind) ==
    /\ pc' = OnException(pc, args)
    /\ error' = kind
    /\ UNCHANGED <<args, log>>

ClearStep ==
    /\ pc = "clear"
    /\ work' = ClearCheckpoints(work)
    /\ Return(ClearedLabel(work))
    /\ UNCHANGED <<parent, trainer, step, saved, nMoved>>

ConfigStep ==
    /\ pc = "config"
    /\ IF ConfigValid(args) THEN Return("Config") ELSE Raise("ConfigError")
    /\ UNCHANGED <<work, parent, trainer, step, saved, nMoved>>

DataHolderStep ==
    /\ pc = "data"
    /\ Return("DataHolder")
    /\ UNCHANGED <<work, parent, trainer, step, saved, nMoved>>

NetworkStep ==
    /\ pc = "network"
    /\ IF NetworkValid(args) THEN Return("DFN") ELSE Raise("ConfigError")
    /\ UNCHANGED <<work, parent, trainer, step, saved, nMoved>>

TrainerStep ==
    /\ pc = "trainer"
    /\ trainer' = "UNINITIALIZED"
    /\ Return("Trainer")
    /\ UNCHANGED <<work, parent, step, saved, nMoved>>

\* trainer.fit(verbose=verbose) is entered: the checkpoint directory is
\* created afresh
FitCall ==
    /\ pc = "fit_call"
    /\ trainer' = "FITTING"
    /\ work' = IF work.exists THEN work ELSE Dir({})
    /\ Return("fit")
    /\ UNCHANGED <<parent, step, saved, nMoved>>

\* one training step of fit, and the checkpoint that may follow it
FitStep ==
    /\ pc = "fit"
    /\ step < TotalSteps(args)
    /\ IF DataOK(args)
       THEN /\ step' = step + 1
            /\ IF SaveDue(step + 1, args)
               THEN /\ saved' = saved \cup {step + 1}
                    /\ work' = [work EXCEPT !.files = @ \cup {"new"}]
               ELSE UNCHANGED <<saved, work>>
            /\ UNCHANGED <<pc, args, log, error>>
       ELSE /\ Raise("DataError")
            /\ UNCHANGED <<step, saved, work>>
    /\ UNCHANGED <<parent, trainer, nMoved>>

FitReturn ==
    /\ pc = "fit"
    /\ step = TotalSteps(args)
    /\ trainer' = "FITTED"
    /\ Return("fit_return")
    /\ UNCHANGED <<work, parent, step, saved, nMoved>>

ReadValidStep ==
    /\ pc = "read_valid"
    /\ Return("read_valid")
    /\ UNCHANGED <<work, parent, trainer, step, saved, nMoved>>

PredictStep ==
    /\ pc = "predict"
    /\ Return("predict")
    /\ UNCHANGED <<work, parent, trainer, step, saved, nMoved>>

PlotStep ==
    /\ pc = "plot"
    /\ Return("plot")
    /\ UNCHANGED <<work, parent, trainer, step, saved, nMoved>>

MoveStep ==
    /\ pc = "move"
    /\ LET r == ShutilMove(work, parent) IN
        IF r.ok
        THEN /\ work' = r.src
             /\ parent' = r.dst
             /\ nMoved' = nMoved + 1
             /\ Return("move")
        ELSE /\ Raise("ShutilError")
             /\ UNCHANGED <<work, parent, nMoved>>
    /\ UNCHANGED <<trainer, step, saved>>

\* main() has returned or an exception has left it: the process ends and
\* nothing but the file system is left of the run
Exit ==
    /\ pc \in {"done", "failed"}
    /\ pc' = "idle"
    /\ args' = NoArgs
    /\ trainer' = "NONE"
    /\ step' = 0
    /\ saved' = {}
    /\ log' = <<>>
    /\ error' = "none"
    /\ UNCHANGED <<work, parent, nMoved>>

\* the statements that touch files or the numeric engine can fail for
\* reasons outside the program
Fallible == {"clear", "data", "fit", "read_valid", "predict", "plot", "move"}

StepRaises ==
    /\ pc \in Fallible
    /\ Raise("RuntimeError")
    /\ UNCHANGED <<work, parent, trainer, step, saved, nMoved>>

Next ==
    \/ MainCall
    \/ TrainCall
    \/ ClearStep
    \/ ConfigStep
    \/ DataHolderStep
    \/ NetworkStep
    \/ TrainerStep
    \/ FitCall
    \/ FitStep
    \/ FitReturn
    \/ ReadValidStep
    \/ PredictStep
    \/ PlotStep
    \/ MoveStep
    \/ StepRaises
    \/ Exit

Spec == Init /\ [][Next]_vars

----------------------------------------------------------------------------
(* Properties *)

InLog(x) == \E i \in DOMAIN log : log[i] = x

Count(x) == Cardinality({i \in DOMAIN log : log[i] = x})

Cleared == InLog("rmtree") \/ InLog("no_rmtree")

\* the checkpoints the run in progress has written
RunFiles == IF saved = {} THEN {} ELSE {"new"}

ModeChannelMismatch(a) ==
    \/ a.mode \in {"pure", "flip", "aug"} /\ a.channels # 3
    \/ a.mode \in {"bin", "gray", "green"} /\ a.channels # 1

\* C1: once train() is past its first statement, and in particular when
\* fit starts, the working checkpoints directory holds no checkpoint of an
\* earlier run; the directory is cleared before Config, DataHolder, DFN and
\* Trainer are constructed.
C1_NoStaleCheckpoints ==
    /\ Cleared => "old" \notin work.files
    /\ (InLog("Config") \/ InLog("DataHolder") \/ InLog("DFN")
        \/ InLog("Trainer") \/ InLog("fit")) => Cleared

C1_Witness == pc = "fit_call" /\ InLog("rmtree")

C3_MismatchRejected == ModeChannelMismatch(args) => ~InLog("fit")

\* C4: every run that calls Trainer.fit has architecture[-1] = 3.
C4_FinalLayerIsClassCount ==
    InLog("fit") => args.architecture[Len(args.architecture)] = NumClasses

\* C5: the channels argument main hands to train() is 1 for the modes bin,
\* gray and green and 3 for every other mode string.
C5_ChannelsFromMode ==
    (args.entry = "main" /\ InLog("train")) =>
        args.channels = (IF args.mode \in {"bin", "gray", "green"} THEN 1 ELSE 3)

C5_Witness ==
    /\ args.entry = "main" /\ args.mode = "green" /\ args.channels = 1
    /\ InLog("Config")

\* C6: an unknown optimizer or activation name makes main fail with a
\* lookup error before train() is entered: nothing is cleared, constructed
\* or fitted.
C6_LookupErrorBeforeTrain ==
    (/\ args.entry = "main"
     /\ \/ args.optimizer \notin optimizer_dict
        \/ /\ args.activations # None
           /\ \E i \in DOMAIN args.activations :
                 args.activations[i] \notin {"relu", "sigmoid", "tanh"})
    => /\ pc = "failed" /\ error = "KeyError"
       /\ log = <<"main">>
       /\ trainer = "NONE" /\ saved = {} /\ step = 0

C6_Witness ==
    /\ pc = "failed" /\ error = "KeyError"
    /\ args.optimizer = "SGD"
    /\ work.exists /\ work.files # {}

\* C7: within a run the Trainer goes UNINITIALIZED -> FITTING -> FITTED,
\* fit is called at most once (exactly once in a completed run), predict
\* is called only after fit has returned and only when verbose is set, and
\* without verbose neither predict nor the plot is called.
C7_TrainerLifecycle ==
    /\ Count("fit") <= 1 /\ Count("fit_return") <= 1
    /\ trainer = "NONE" <=> ~InLog("Trainer")
    /\ trainer = "UNINITIALIZED" <=> (InLog("Trainer") /\ ~InLog("fit"))
    /\ trainer = "FITTING" <=> (InLog("fit") /\ ~InLog("fit_return"))
    /\ trainer = "FITTED" <=> InLog("fit_return")
    /\ (pc = "predict" \/ InLog("predict")) => (trainer = "FITTED" /\ args.verbose)
    /\ ~args.verbose =>
          /\ ~InLog("read_valid") /\ ~InLog("predict") /\ ~InLog("plot")
          /\ pc \notin {"read_valid", "predict", "plot"}
    /\ pc = "done" => Count("fit") = 1 /\ trainer = "FITTED"

C7_Witness == pc = "done" /\ InLog("predict") /\ InLog("plot")

\* C8: a step of train() that fails ends the run at that step: the failing
\* step completes nothing, and after it the only thing that happens is the
\* end of the process, with the file system as the failure left it.
C8_FailFast ==
    [][/\ (error = "none" /\ error' # "none") =>
              /\ pc' = "failed"
              /\ pc # "idle" => (log' = log /\ work' = work /\ parent' = parent)
       /\ error # "none" =>
              /\ pc = "failed" /\ pc' = "idle"
              /\ work' = work /\ parent' = parent /\ nMoved' = nMoved]_vars

C8_Witness ==
    /\ pc = "failed" /\ error = "RuntimeError"
    /\ InLog("fit") /\ ~InLog("fit_return")
    /\ args.verbose /\ args.move
    /\ work.exists

\* C9: a completed run with move set ends with the relocation, after which
\* its checkpoints lie directly in the parent-level checkpoints directory
\* and the working one is gone; without move they stay in the working
\* directory and no relocation happens.
C9_Relocation ==
    pc = "done" =>
        IF args.move
        THEN /\ log[Len(log)] = "move"
             /\ ~work.exists
             /\ parent.exists /\ RunFiles \subseteq parent.files
             /\ ~parent.subExists
        ELSE /\ work.exists /\ RunFiles \subseteq work.files
             /\ ~InLog("move")

\* C10: after two or more completed runs with move set the parent-level
\* checkpoints directory holds the checkpoints of the latest run only,
\* neither beside nor nested with those of an earlier run.
C10_OnlyLatestRun ==
    (pc = "done" /\ args.move /\ nMoved >= 2) =>
        /\ parent.exists
        /\ "old" \notin parent.files
        /\ ~parent.subExists

====
